---- MODULE Spec2Model ----
(***************************************************************************)
(* Model of poetry.core.vcs.git: the ordered URL grammars PATTERNS,        *)
(* ParsedUrl.parse, ParsedUrl.url/format and Git.normalize_url.            *)
(*                                                                         *)
(* Strings are TLA+ strings; a character is a string of length 1.          *)
(* Python's None is the empty tuple None, a present value v is <<v>>.      *)
(* Regular expressions are syntax trees run by a backtracking matcher that *)
(* lists every way a pattern can match in the order Python's re module     *)
(* tries them, so that the first element is the match re returns.          *)
(***************************************************************************)
EXTENDS Integers, Sequences, FiniteSets, TLC

VARIABLES url, pc, parsed, formatted, normalized, result

vars == <<url, pc, parsed, formatted, normalized, result>>

---------------------------------------------------------------------------
(* Characters *)

Lower == {"a","b","c","d","e","f","g","h","i","j","k","l","m",
          "n","o","p","q","r","s","t","u","v","w","x","y","z"}
Upper == {"A","B","C","D","E","F","G","H","I","J","K","L","M",
          "N","O","P","Q","R","S","T","U","V","W","X","Y","Z"}
Digit == {"0","1","2","3","4","5","6","7","8","9"}

\* The characters a modelled string may hold.
Alphabet == Lower \cup Upper \cup Digit \cup
            {"_", ".", "-", "~", "/", "\\", ":", "@", "#", "+", "(", " ", "\n"}

None == <<>>
Some(v) == <<v>>

CharAt(s, i) == SubSeq(s, i, i)

---------------------------------------------------------------------------
(* Regular expression syntax trees *)

Chr(cs)      == [t |-> "chr", cs |-> cs]
Cat(rs)      == [t |-> "cat", rs |-> rs]
Alt(rs)      == [t |-> "alt", rs |-> rs]
Opt(r)       == [t |-> "opt", r |-> r]
\* [cs]* and [cs]+ (a quantifier of these patterns always applies to one
\* character class), and the lazy [cs]+?
Star(cs)     == [t |-> "star", cs |-> cs, min |-> 0]
Plus(cs)     == [t |-> "star", cs |-> cs, min |-> 1]
LazyPlus(cs) == [t |-> "lazy", cs |-> cs, min |-> 1]
Grp(name, r) == [t |-> "grp", name |-> name, r |-> r]
Bol          == [t |-> "bol"]
Eol          == [t |-> "eol"]
Lit(s)       == Cat([i \in 1..Len(s) |-> Chr({CharAt(s, i)})])

\* \w, '.', and [^...] over the alphabet
Word       == Lower \cup Upper \cup Digit \cup {"_"}
AnyChar    == Alphabet \ {"\n"}
Not(cs)    == Alphabet \ cs

---------------------------------------------------------------------------
(* The backtracking matcher.  A match state is [pos, caps]: pos characters *)
(* consumed, caps the spans <<start, end>> of the groups set so far.       *)
(* Run lists the states in which r can end when started in st, in re's     *)
(* order of preference (greedy: longest first; lazy: shortest first), so   *)
(* that the first state of a whole pattern's list is the match re finds.   *)

\* How many characters of s after the first pos are all in cs.
RunLength(s, pos, cs) ==
    LET stops == {k \in 1..(Len(s) - pos) : CharAt(s, pos + k) \notin cs}
    IN  IF stops = {} THEN Len(s) - pos
        ELSE (CHOOSE k \in stops : \A j \in stops : k <= j) - 1

RECURSIVE Run(_, _, _), RunAll(_, _, _, _, _), RunCat(_, _, _, _), RunAlt(_, _, _, _)

Run(r, s, st) ==
    CASE r.t = "chr" ->
           IF st.pos < Len(s) /\ CharAt(s, st.pos + 1) \in r.cs
           THEN <<[st EXCEPT !.pos = st.pos + 1]>>
           ELSE <<>>
      [] r.t = "cat" -> RunCat(r.rs, 1, s, <<st>>)
      [] r.t = "alt" -> RunAlt(r.rs, 1, s, st)
      [] r.t = "opt" -> Run(r.r, s, st) \o <<st>>
      [] r.t = "star" ->
           LET n == RunLength(s, st.pos, r.cs)
           IN  [k \in 1..(n + 1 - r.min) |-> [st EXCEPT !.pos = st.pos + n + 1 - k]]
      [] r.t = "lazy" ->
           LET n == RunLength(s, st.pos, r.cs)
           IN  [k \in 1..(n + 1 - r.min) |-> [st EXCEPT !.pos = st.pos + r.min + k - 1]]
      [] r.t = "grp" ->
           LET ends == Run(r.r, s, st)
           IN  [k \in 1..Len(ends) |->
                  [ends[k] EXCEPT !.caps =
                     (r.name :> <<st.pos, ends[k].pos>>) @@ ends[k].caps]]
      [] r.t = "bol" -> IF st.pos = 0 THEN <<st>> ELSE <<>>
      [] r.t = "eol" ->
           IF \/ st.pos = Len(s)
              \/ st.pos = Len(s) - 1 /\ CharAt(s, Len(s)) = "\n"
           THEN <<st>> ELSE <<>>

\* r run from each of sts[lo..hi], the results concatenated in order
RunAll(r, s, sts, lo, hi) ==
    IF lo > hi THEN <<>>
    ELSE IF lo = hi THEN Run(r, s, sts[lo])
    ELSE LET mid == (lo + hi) \div 2
         IN  RunAll(r, s, sts, lo, mid) \o RunAll(r, s, sts, mid + 1, hi)

\* rs[k..] run one after the other from each of sts
RunCat(rs, k, s, sts) ==
    IF k > Len(rs) \/ sts = <<>> THEN sts
    ELSE RunCat(rs, k + 1, s, RunAll(rs[k], s, sts, 1, Len(sts)))

\* the alternatives rs[k..] tried in order from st
RunAlt(rs, k, s, st) ==
    IF k > Len(rs) THEN <<>>
    ELSE Run(rs[k], s, st) \o RunAlt(rs, k + 1, s, st)

NoMatch == [matched |-> FALSE]

\* The match re finds for r at offset i of s (no search to the right).
MatchAt(r, s, i) ==
    LET ends == Run(r, s, [pos |-> i, caps |-> <<>>])
    IN  IF ends = <<>> THEN NoMatch
        ELSE [matched |-> TRUE, start |-> i, end |-> ends[1].pos,
              caps |-> ends[1].caps]

\* pattern.match(s) / re.match(pattern, s)
ReMatch(r, s) == MatchAt(r, s, 0)

\* m.group(name): the text of a group, None when it took no part
Group(m, s, name) ==
    IF name \in DOMAIN m.caps
    THEN Some(SubSeq(s, m.caps[name][1] + 1, m.caps[name][2]))
    ELSE None

\* A replacement template: literal text and group references, in order.
RECURSIVE Expand(_, _, _, _)
Expand(repl, k, m, s) ==
    IF k > Len(repl) THEN ""
    ELSE (IF "ref" \in DOMAIN repl[k]
          THEN (IF Group(m, s, repl[k].ref) = None THEN ""
                ELSE Group(m, s, repl[k].ref)[1])
          ELSE repl[k].lit)
         \o Expand(repl, k + 1, m, s)

\* re.sub(pattern, repl, s): every non-overlapping match, leftmost first,
\* replaced.  (No pattern of this module matches the empty string.)
RECURSIVE SubFrom(_, _, _, _)
SubFrom(r, repl, s, i) ==
    IF i >= Len(s) THEN ""
    ELSE LET m == MatchAt(r, s, i)
         IN  IF m.matched /\ m.end > i
             THEN Expand(repl, 1, m, s) \o SubFrom(r, repl, s, m.end)
             ELSE CharAt(s, i + 1) \o SubFrom(r, repl, s, i + 1)

ReSub(r, repl, s) == SubFrom(r, repl, s, 0)

---------------------------------------------------------------------------
(* pattern_formats *)

fmt_protocol == Plus(Word)
fmt_user     == Plus(Lower \cup Upper \cup Digit \cup {"_", ".", "-"})
fmt_resource == Plus(Lower \cup Upper \cup Digit \cup {"_", ".", "-"})
fmt_port     == Plus(Digit)
fmt_path     == Plus(Word \cup {"~", ".", "-", "/", "\\"})
fmt_name     == Plus(Word \cup {"~", ".", "-"})
\* {name}? : the name format followed by '?', a lazy repetition
fmt_name_lazy == LazyPlus(Word \cup {"~", ".", "-"})
fmt_rev      == Plus(Not({"@", "#"}))

RevSuffix == Opt(Cat(<<Chr({"@", "#"}), Grp("rev", fmt_rev)>>))

(* PATTERNS[0]: protocol URL with a scheme among https?|git|ssh|rsync|file *)
Pattern1 ==
    Cat(<< Bol,
           Opt(Lit("git+")),
           Grp("protocol", Alt(<< Cat(<<Lit("http"), Opt(Lit("s"))>>),
                                  Lit("git"), Lit("ssh"), Lit("rsync"),
                                  Lit("file") >>)),
           Lit("://"),
           Opt(Cat(<<Grp("user", fmt_user), Lit("@")>>)),
           Opt(Grp("resource", fmt_resource)),
           Opt(Cat(<<Lit(":"), Grp("port", fmt_port)>>)),
           Grp("pathname",
               Cat(<< Chr({":", "/", "\\"}),
                      Opt(Cat(<<fmt_path, Chr({"/", "\\"})>>)),
                      Opt(Cat(<< Grp("name", fmt_name_lazy),
                                 Opt(Alt(<<Lit(".git"), Chr({"/", "\\"})>>)) >>))
                   >>)),
           RevSuffix,
           Eol >>)

(* PATTERNS[1]: protocol URL with any \w+ scheme *)
Pattern2 ==
    Cat(<< Opt(Lit("git+")),
           Cat(<<Grp("protocol", fmt_protocol), Lit("://")>>),
           Opt(Cat(<<Grp("user", fmt_user), Lit("@")>>)),
           Grp("resource", Cat(<<fmt_resource, Opt(Lit(":"))>>)),
           Opt(Cat(<<Lit(":"), Grp("port", fmt_port)>>)),
           Grp("pathname",
               Cat(<< fmt_path,
                      Grp("name", fmt_name),
                      Opt(Alt(<<Lit(".git"), Lit("/")>>)) >>)),
           RevSuffix,
           Eol >>)

(* PATTERNS[2]: scp-like shorthand, pathname starting with ':' or '/' *)
Pattern3 ==
    Cat(<< Bol,
           Opt(Cat(<<Grp("user", fmt_user), Lit("@")>>)),
           Grp("resource", fmt_resource),
           Opt(Cat(<<Lit(":"), Grp("port", fmt_port)>>)),
           Grp("pathname",
               Cat(<< Cat(<<Chr({":", "/"}), fmt_path, Lit("/")>>),
                      Grp("name", fmt_name),
                      Opt(Alt(<<Lit(".git"), Lit("/")>>)) >>)),
           RevSuffix,
           Eol >>)

(* PATTERNS[3]: bare shorthand, one or two separators after the resource *)
Pattern4 ==
    Cat(<< Opt(Cat(<<Grp("user", fmt_user), Lit("@")>>)),
           Grp("resource", fmt_resource),
           Cat(<<Chr({":", "/"}), Opt(Chr({":", "/"}))>>),
           Grp("pathname",
               Cat(<< fmt_path,
                      Grp("name", fmt_name),
                      Opt(Alt(<<Lit(".git"), Lit("/")>>)) >>)),
           RevSuffix,
           Eol >>)

\* The list with the shorthand grammars ahead of the protocol grammars.
PATTERNS_shorthand_first == <<Pattern3, Pattern4, Pattern1, Pattern2>>

PATTERNS == <<Pattern1, Pattern2, Pattern3, Pattern4>>

---------------------------------------------------------------------------
(* ParsedUrl *)

\* ParsedUrl(groups.get("protocol"), ...) from a match m of url
ParsedUrl(m, u) ==
    [protocol |-> Group(m, u, "protocol"),
     resource |-> Group(m, u, "resource"),
     pathname |-> Group(m, u, "pathname"),
     user     |-> Group(m, u, "user"),
     port     |-> Group(m, u, "port"),
     name     |-> Group(m, u, "name"),
     rev      |-> Group(m, u, "rev")]

ValueError(u) == [error |-> "ValueError", url |-> u]

\* The loop of ParsedUrl.parse from pattern number i on.
RECURSIVE ParseFrom(_, _, _)
ParseFrom(patterns, i, u) ==
    IF i > Len(patterns) THEN ValueError(u)
    ELSE LET m == ReMatch(patterns[i], u)
         IN  IF m.matched THEN ParsedUrl(m, u)
             ELSE ParseFrom(patterns, i + 1, u)

Parse(u) == ParseFrom(PATTERNS, 1, u)

IsError(x) == "error" \in DOMAIN x

\* Python truthiness of an optional string: neither None nor ""
Truthy(o) == o # None /\ o[1] # ""

\* "{}".format(o): the text of a value, "None" for None
PyStr(o) == IF o = None THEN "None" ELSE o[1]

\* s.lstrip(cs)
RECURSIVE LStrip(_, _)
LStrip(s, cs) ==
    IF Len(s) > 0 /\ CharAt(s, 1) \in cs THEN LStrip(Tail(s), cs) ELSE s

\* ParsedUrl.url, which ParsedUrl.format returns
Url(p) ==
    (IF Truthy(p.protocol) THEN p.protocol[1] \o "://" ELSE "")
    \o (IF Truthy(p.user) THEN p.user[1] \o "@" ELSE "")
    \o PyStr(p.resource)
    \o (IF Truthy(p.port) THEN ":" \o p.port[1] ELSE "")
    \o ("/" \o LStrip(p.pathname[1], {":", "/"}))

---------------------------------------------------------------------------
(* Git.normalize_url *)

ReError == [error |-> "re.error"]

\* Characters with a meaning of their own in a regular expression.
Special == {".", "^", "$", "*", "+", "?", "{", "}", "[", "]", "\\", "|", "(", ")"}

Contains(s, c) == \E i \in 1..Len(s) : CharAt(s, i) = c

\* re.compile of r"[#@]{}$".format(rev): rev is pasted into the expression
\* unescaped.  A '.' in it matches any character but a newline, a '(' opens
\* a group that nothing closes (no ')' is in the alphabet), which re.compile
\* rejects; every character that is not special stands for itself.  A rev
\* holding another special character is outside what is modelled.
RevPattern(rev) ==
    CASE \E c \in Special \ {".", "("} : Contains(rev, c) ->
           [error |-> "unmodelled"]
      [] Contains(rev, "(") -> ReError
      [] OTHER ->
           Cat(<< Chr({"#", "@"}),
                  Cat([i \in 1..Len(rev) |->
                         IF CharAt(rev, i) = "." THEN Chr(AnyChar)
                         ELSE Chr({CharAt(rev, i)})]),
                  Eol >>)

\* lines 182-184: [text |-> formatted], or the error re.sub raises
Formatted(u, p) ==
    LET stripped == ReSub(Cat(<<Bol, Lit("git+")>>), <<>>, u)
    IN  IF Truthy(p.rev)
        THEN (IF IsError(RevPattern(p.rev[1])) THEN RevPattern(p.rev[1])
              ELSE [text |-> ReSub(RevPattern(p.rev[1]), <<>>, stripped)])
        ELSE [text |-> stripped]

\* r"git\+(.*:[^:]+):(.*)"
ColonRewrite ==
    Cat(<< Lit("git+"),
           Grp("1", Cat(<<Star(AnyChar), Lit(":"), Plus(Not({":"}))>>)),
           Lit(":"),
           Grp("2", Star(AnyChar)) >>)

IsGitHttp(u) ==
    ReMatch(Cat(<<Bol, Lit("git+http"), Opt(Lit("s"))>>), u).matched

ColonPath(path) ==
    ReMatch(Cat(<<Bol, Opt(Lit("/")), Lit(":"), Chr(Not(Digit))>>), path).matched

IsGitFile(u) == ReMatch(Cat(<<Bol, Lit("git+file")>>), u).matched

\* line 186
Altered(p, f) == Url(p) # f

\* The transport rewriting applied without asking whether the re-rendering
\* differs from the stripped input.
Normalized_always_rewrite(u, p, f) ==
    IF IsGitHttp(u) /\ ColonPath(p.pathname[1])
    THEN ReSub(ColonRewrite, <<[ref |-> "1"], [lit |-> "/"], [ref |-> "2"]>>, u)
    ELSE IF IsGitFile(u)
    THEN ReSub(Lit("git+"), <<>>, u)
    ELSE ReSub(Cat(<<Bol, Opt(Lit("git+")), Lit("ssh://")>>), <<>>, u)

\* lines 188-198: normalized
Normalized(u, p, f) ==
    IF Altered(p, f)
    THEN IF IsGitHttp(u) /\ ColonPath(p.pathname[1])
         THEN ReSub(ColonRewrite, <<[ref |-> "1"], [lit |-> "/"], [ref |-> "2"]>>, u)
         ELSE IF IsGitFile(u)
         THEN ReSub(Lit("git+"), <<>>, u)
         ELSE ReSub(Cat(<<Bol, Opt(Lit("git+")), Lit("ssh://")>>), <<>>, u)
    ELSE Url(p)

\* line 200: re.sub(r"#[^#]*$", "", normalized)
StripFragment(n) ==
    ReSub(Cat(<<Lit("#"), Star(Not({"#"})), Eol>>), <<>>, n)

GitUrl(u, revision) == [url |-> u, revision |-> revision]

\* Git.normalize_url as a function: a GitUrl, or the error it raises
NormalizeUrl(u) ==
    LET p == Parse(u)
    IN  IF IsError(p) THEN p
        ELSE LET f == Formatted(u, p)
             IN  IF IsError(f) THEN f
                 ELSE GitUrl(StripFragment(Normalized(u, p, f.text)), p.rev)

---------------------------------------------------------------------------
(* Inputs *)

\* The longest path of an input, in segments.
MaxPathSegs == 2

RECURSIVE Segs(_)
Segs(n) == IF n = 0 THEN "" ELSE IF n = 1 THEN "r" ELSE "p/" \o Segs(n - 1)

Prefixes == {"", "git+"}
Schemes  == {"", "https://", "ssh://", "file://", "svn://"}
Hosts    == {"", "h", "u@h", "h:2", "u@h:2"}
Paths    == {""} \cup
            {sep \o Segs(n) \o suffix :
                sep \in {":", "/"}, n \in 0..MaxPathSegs, suffix \in {"", ".git"}}
Revs     == {"", "@v", "#v", "@a:b", "#a:b", "@(", "\n", "@v\n"}

\* The inputs the specification's own examples name.
Examples == {"not a url at all",
             "https://example.com/org/repo.git#deadbeef",
             "git+ssh://git@github.com/org/repo.git",
             "git+ssh://git@github.com:org/repo.git",
             "git+file:///srv/repos/repo.git",
             "git+https://user@hostname:project/repo.git"}

Inputs == {pre \o sch \o host \o path \o rev :
              pre \in Prefixes, sch \in Schemes, host \in Hosts,
              path \in Paths, rev \in Revs}
          \cup Examples

---------------------------------------------------------------------------
(* The program: one call of Git.normalize_url(url) *)

Init ==
    /\ url \in Inputs
    /\ pc = "parse"
    /\ parsed = None
    /\ formatted = None
    /\ normalized = None
    /\ result = None

\* line 180: parsed = ParsedUrl.parse(url), whose ValueError propagates
DoParse ==
    /\ pc = "parse"
    /\ LET p == Parse(url)
       IN  IF IsError(p)
           THEN /\ result' = p
                /\ pc' = "raised"
                /\ parsed' = parsed
           ELSE /\ parsed' = p
                /\ pc' = "format"
                /\ result' = result
    /\ UNCHANGED <<url, formatted, normalized>>

\* lines 182-184
DoFormat ==
    /\ pc = "format"
    /\ LET f == Formatted(url, parsed)
       IN  IF IsError(f)
           THEN /\ result' = f
                /\ pc' = "raised"
                /\ formatted' = formatted
           ELSE /\ formatted' = Some(f.text)
                /\ pc' = "rewrite"
                /\ result' = result
    /\ UNCHANGED <<url, parsed, normalized>>

\* lines 186-198
DoRewrite ==
    /\ pc = "rewrite"
    /\ normalized' = Some(Normalized(url, parsed, formatted[1]))
    /\ pc' = "return"
    /\ UNCHANGED <<url, parsed, formatted, result>>

\* line 200
DoReturn ==
    /\ pc = "return"
    /\ result' = GitUrl(StripFragment(normalized[1]), parsed.rev)
    /\ pc' = "done"
    /\ UNCHANGED <<url, parsed, formatted, normalized>>

Next == DoParse \/ DoFormat \/ DoRewrite \/ DoReturn

Spec == Init /\ [][Next]_vars

---------------------------------------------------------------------------
(* Properties *)

StartsWith(s, pre) == Len(s) >= Len(pre) /\ SubSeq(s, 1, Len(pre)) = pre
EndsWith(s, suf) ==
    Len(s) >= Len(suf) /\ SubSeq(s, Len(s) - Len(suf) + 1, Len(s)) = suf
DropFirst(s, n) == SubSeq(s, n + 1, Len(s))
DropLast(s, n) == SubSeq(s, 1, Len(s) - n)

\* parse returned a ParsedUrl (parsed holds it)
ParseOk ==
    \/ pc \in {"format", "rewrite", "return", "done"}
    \/ pc = "raised" /\ result.error # "ValueError"

\* parse raised its error
ParseFailed == pc = "raised" /\ result.error = "ValueError"

\* The four grammars in the order the specification gives them.
Grammars == <<Pattern1, Pattern2, Pattern3, Pattern4>>

Matches(i, u) == ReMatch(Grammars[i], u).matched
Captures(i, u) == ParsedUrl(ReMatch(Grammars[i], u), u)

\* Some way of matching grammar i consumes all of u.
FullMatch(i, u) ==
    LET ends == Run(Grammars[i], u, [pos |-> 0, caps |-> <<>>])
    IN  \E k \in 1..Len(ends) : ends[k].pos = Len(u)

\* No step met a revision outside what RevPattern models.
AllModelled == pc = "raised" => result.error \in {"ValueError", "re.error"}

\* C1: parse returns the captures of the first grammar, in list order, that
\* matches: grammar 1's whenever grammar 1 matches, and grammar i's only
\* when grammars 1..i-1 all fail (checked as parse returns).
C1_FirstGrammarWins ==
    pc = "format" =>
      /\ Matches(1, url) => parsed = Captures(1, url)
      /\ \A i \in 1..4 :
           (Matches(i, url) /\ \A j \in 1..(i - 1) : ~Matches(j, url))
             => parsed = Captures(i, url)
      /\ \E i \in 1..4 :
           Matches(i, url) /\ \A j \in 1..(i - 1) : ~Matches(j, url)

\* C1 witness: grammar 1 and grammar 4 both match and capture differently,
\* and parse has returned.
C1_Witness ==
    /\ pc = "format"
    /\ Matches(1, url) /\ Matches(4, url)
    /\ Captures(1, url) # Captures(4, url)
    /\ parsed = Captures(1, url)

\* C2 (as claimed): parse returns a ParsedUrl exactly when some grammar
\* matches the input from its first to its last character, and otherwise
\* raises the error that carries the input.
C2_AllOrNothing ==
    /\ ParseOk => \E i \in 1..4 : FullMatch(i, url)
    /\ ParseFailed => /\ \A i \in 1..4 : ~FullMatch(i, url)
                      /\ result = ValueError(url)

\* C3 (as claimed): the returned revision is the captured rev and the
\* returned url does not end with '@rev' or '#rev'.
C3_RevisionStripped ==
    (pc = "done" /\ parsed.rev # None) =>
      /\ result.revision = parsed.rev
      /\ ~EndsWith(result.url, "@" \o parsed.rev[1])
      /\ ~EndsWith(result.url, "#" \o parsed.rev[1])

\* The input without a leading 'git+' and without its trailing '@rev' or
\* '#rev', as text.
Stripped(u, rev) ==
    LET a == IF StartsWith(u, "git+") THEN DropFirst(u, 4) ELSE u
    IN  IF rev # None /\ (EndsWith(a, "@" \o rev[1]) \/ EndsWith(a, "#" \o rev[1]))
        THEN DropLast(a, Len(rev[1]) + 1)
        ELSE a

\* C4 (as claimed): an input whose re-rendering equals the input without
\* 'git+' and without its revision suffix is returned as that re-rendering,
\* with the captured revision.
C4_CanonicalRoundTrip ==
    (ParseOk /\ pc # "format" /\ pc # "rewrite" /\ pc # "return"
       /\ Url(parsed) = Stripped(url, parsed.rev)) =>
      /\ pc = "done"
      /\ result = GitUrl(Stripped(url, parsed.rev), parsed.rev)

\* C5 (as claimed): a 'git+ssh://' input with '/' between host and path
\* comes back without 'git+' and without 'ssh://'.
C5_SshSchemeStripped ==
    (pc = "done" /\ StartsWith(url, "git+ssh://")
       /\ StartsWith(parsed.pathname[1], "/")) =>
      /\ ~StartsWith(result.url, "git+")
      /\ ~StartsWith(result.url, "ssh://")

\* C5 (amended): for a 'git+ssh://' input the 'git+' prefix always goes; the
\* 'ssh://' scheme goes only when the re-rendering differs from the stripped
\* input (the url is then the input without its leading 'git+ssh://' and
\* without a trailing '#' fragment); otherwise, as with a single '/' between
\* host and path, the url is the re-rendering and keeps 'ssh://'.
C5_SshSchemeKeptUnlessAltered ==
    (pc = "done" /\ StartsWith(url, "git+ssh://")) =>
      /\ ~StartsWith(result.url, "git+")
      /\ IF Altered(parsed, formatted[1])
         THEN result.url = StripFragment(DropFirst(url, 10))
         ELSE /\ result.url = Url(parsed)
              /\ StartsWith(result.url, "ssh://")

\* C5 witness: the claim's example shape has been normalized and keeps
\* its scheme.
C5_Witness ==
    /\ pc = "done"
    /\ url = "git+ssh://git@github.com/org/repo.git"
    /\ ~Altered(parsed, formatted[1])
    /\ result = GitUrl("ssh://git@github.com/org/repo.git", None)

\* C6 (as claimed): a 'git+file' input comes back as the input without
\* 'git+' and without the revision suffix, nothing else changed.
C6_GitFileVerbatim ==
    (pc = "done" /\ StartsWith(url, "git+file")) =>
      result.url = Stripped(url, parsed.rev)

\* u with the revision put back after marker
Reinsert(u, rev, marker) == IF rev = None THEN u ELSE u \o marker \o rev[1]

\* C7 (as claimed): normalizing the output again, the revision put back
\* with one of the two markers, gives the same GitUrl.
C7_Idempotent ==
    pc = "done" =>
      \E marker \in {"@", "#"} :
        NormalizeUrl(Reinsert(result.url, result.revision, marker)) = result

\* C8 (as claimed): normalize_url raises nothing but parse's error.
C8_OnlyParseErrors ==
    pc = "raised" => /\ result = ValueError(url)
                     /\ IsError(Parse(url))

\* What precedes the pathname in the input without 'git+'.
Authority(p) ==
    (IF p.protocol # None THEN p.protocol[1] \o "://" ELSE "")
    \o (IF p.user # None THEN p.user[1] \o "@" ELSE "")
    \o (IF p.resource # None THEN p.resource[1] ELSE "")
    \o (IF p.port # None THEN ":" \o p.port[1] ELSE "")

\* C9 (as claimed): in the colon rewrite the url is the input without
\* 'git+' in which the ':' that starts the pathname, and no other character,
\* has become '/' (the '#' fragment then removed by the last step).
C9_SeparatorColonRewritten ==
    (pc = "done" /\ IsGitHttp(url) /\ Altered(parsed, formatted[1])
       /\ ColonPath(parsed.pathname[1])) =>
      LET rest == DropFirst(url, 4)
          head == Authority(parsed)
      IN  /\ StartsWith(rest, head \o ":")
          /\ result.url =
               StripFragment(head \o "/" \o DropFirst(rest, Len(head) + 1))

\* C10 (as claimed): the re-rendering concatenates the present fields only;
\* an absent field contributes no text.
C10_PresentFieldsOnly ==
    ParseOk =>
      Url(parsed) = Authority(parsed) \o "/" \o LStrip(parsed.pathname[1], {":", "/"})

====
